---- MODULE Spec2Model ----
(***************************************************************************)
(* notes-agent: the document storage and change-detection layer            *)
(* (storage.py), the process_raw_file workflow around the external         *)
(* improvement call, and the two tool-dispatch paths (server.call_tool and *)
(* ToolRegistry.execute_tool with the handlers of handlers.py).            *)
(*                                                                         *)
(* File names are plain names (no directory part), so Path(...).name of a  *)
(* raw path is the filename the caller passed.                             *)
(***************************************************************************)
EXTENDS Integers, Sequences, FiniteSets, TLC

VARIABLES
    anthropic_client,   \* TRUE iff the AsyncAnthropic client was constructed
    raw,                \* RAW_DIR: file name -> Absent or [bytes, readable]
    processed,          \* PROCESSED_DIR: file name -> Absent or bytes
    metadata,           \* DocumentStorage.metadata: name -> record
    snapshot,           \* INDEX_DIR/document_metadata.json on disk
    task,               \* the process_raw_file coroutines
    calls,              \* process_raw_file invocations started so far; the clock
    envs,               \* changes made by the filesystem's other users so far
    restarts,           \* server restarts so far
    succeeded,          \* names whose processing ever returned success
    lifeSucceeded,      \* ... since the DocumentStorage was constructed
    handlers,           \* ToolRegistry._handlers: tool name -> handler class
    last                \* the last tool call that returned without awaiting

vars == <<anthropic_client, raw, processed, metadata, snapshot, task,
          calls, envs, restarts, succeeded, lifeSucceeded, handlers, last>>

storageVars == <<anthropic_client, raw, processed, metadata, snapshot, task,
                 calls, envs, restarts, succeeded, lifeSucceeded>>

dispatchVars == <<handlers, last>>

----------------------------------------------------------------------------
\* Bounds of the model.

MaxCalls    == 2    \* process_raw_file invocations
MaxEnv      == 1    \* changes to the raw directory and the snapshot from outside
MaxRestarts == 1    \* restarts of the server process

Names == {"a.txt", "b.md"}
Tasks == {1, 2}

\* File contents are pairs <<source, v>>: v = 0 for bytes put into the raw
\* directory, v = t for the text the service returns to invocation t for it.
\* "bx" is not valid UTF-8.  "b1" and "b3" are different contents with the
\* same MD5 digest (MD5 is many-to-one).
Bytes   == {<<"b1", 0>>, <<"b2", 0>>, <<"b3", 0>>, <<"bx", 0>>}
NoBytes == <<"", 0>>

\* A directory entry.  Absent: no such file.
Absent   == [exists |-> FALSE, bytes |-> NoBytes, readable |-> FALSE]
File(b)  == [exists |-> TRUE, bytes |-> b, readable |-> TRUE]
\* A file open() fails on (no permission): exists() and stat() still succeed.
Locked(b) == [exists |-> TRUE, bytes |-> b, readable |-> FALSE]
RawFiles == {File(b) : b \in Bytes} \cup {Locked(<<"b1", 0>>)}

\* Python values: a str is <<"str", its UTF-8 bytes>>.
None   == <<"None", NoBytes>>
Str(b) == <<"str", b>>

----------------------------------------------------------------------------
\* Library functions the storage layer uses.

\* hashlib.md5(...).hexdigest()
md5(b) ==
    CASE b[1] = "b1" -> "d41d"
      [] b[1] = "b2" -> "9e10"
      [] b[1] = "b3" -> "d41d"
      [] b[1] = "bx" -> "7f3a"
      [] OTHER       -> "0000"

\* Path.stat().st_size
st_size(b) ==
    CASE b[1] = "b1" -> 9
      [] b[1] = "b2" -> 11
      [] b[1] = "b3" -> 9
      [] b[1] = "bx" -> 4
      [] OTHER       -> 0

\* open(..., 'r', encoding='utf-8').read(): a str, or UnicodeDecodeError
\* (None here, as both callers turn the exception into None)
utf8_decode(b) == IF b[1] = "bx" THEN None ELSE Str(b)

\* open(..., 'w', encoding='utf-8').write(s)
utf8_encode(s) == s[2]

\* response.content[0].text: the text messages.create returns to invocation t
\* for a prompt holding raw_content.
Response(raw_content, t) == Str(<<utf8_encode(raw_content)[1], t>>)

RAW_PATH(filename)       == <<"data/raw", filename>>
PROCESSED_PATH(filename) == <<"data/processed", filename>>

----------------------------------------------------------------------------
\* DocumentStorage: the queries.

\* _get_file_hash: the digest of the bytes, "" when the file cannot be opened
_get_file_hash(file) ==
    IF file.exists /\ file.readable THEN md5(file.bytes) ELSE ""

\* dict.get("hash", "") of a stored record
stored_hash(rec) == IF "hash" \in DOMAIN rec THEN rec.hash ELSE ""

\* Mutant: a file with a record is never stale (the hashes are not compared).
file_needs_processing_new_only(m, file, file_key) ==
    file.exists /\ file_key \notin DOMAIN m

\* Mutant: the existence check is left out.
file_needs_processing_unchecked(m, file, file_key) ==
    IF file_key \notin DOMAIN m THEN TRUE
    ELSE _get_file_hash(file) # stored_hash(m[file_key])

file_needs_processing_in(m, file, file_key) ==
    IF ~file.exists THEN FALSE
    ELSE LET current_hash == _get_file_hash(file)
         IN  IF file_key \notin DOMAIN m THEN TRUE
             ELSE current_hash # stored_hash(m[file_key])

file_needs_processing(filename) ==
    file_needs_processing_in(metadata, raw[filename], filename)

has_document_info(filename) == filename \in DOMAIN metadata

read_file(file) ==
    IF ~file.exists THEN None
    ELSE IF ~file.readable THEN None
    ELSE utf8_decode(file.bytes)

read_raw_file(filename) == read_file(raw[filename])

read_processed_file(filename) == read_file(processed[filename])

----------------------------------------------------------------------------
\* The metadata snapshot: orjson.dumps / orjson.loads.

Empty == [k \in {} |-> 0]

\* Mutant: the document holds the first member only (a partial dump).
dumps_first_member(m) ==
    IF DOMAIN m = {} THEN {}
    ELSE LET k == CHOOSE k \in DOMAIN m : TRUE
         IN  { <<k, <<m[k].hash, m[k].processed_at, m[k].raw_path,
                      m[k].processed_path, m[k].size>> >> }

\* orjson.dumps(self.metadata): the JSON object, one member per key
dumps(m) ==
    { <<k, <<m[k].hash, m[k].processed_at, m[k].raw_path,
             m[k].processed_path, m[k].size>> >> : k \in DOMAIN m }

\* orjson.loads(f.read())
loads(doc) ==
    [k \in {p[1] : p \in doc} |->
        LET v == (CHOOSE p \in doc : p[1] = k)[2]
        IN  [hash |-> v[1], processed_at |-> v[2], raw_path |-> v[3],
             processed_path |-> v[4], size |-> v[5]]]

NoSnapshot      == [state |-> "missing", doc |-> {}]
CorruptSnapshot == [state |-> "corrupt", doc |-> {}]
Json(doc)       == [state |-> "json", doc |-> doc]

_load_metadata(snap) ==
    IF snap.state = "missing" THEN Empty
    ELSE IF snap.state = "corrupt" THEN Empty
    ELSE loads(snap.doc)

\* What open(metadata_file, 'wb') + write can leave on disk: the new document,
\* the old file (open failed), or a truncated file (the write failed).
SaveOutcomes == {"ok", "open_failed", "write_failed"}

_save_metadata(m, snap, outcome) ==
    CASE outcome = "ok"           -> Json(dumps(m))
      [] outcome = "open_failed"  -> snap
      [] outcome = "write_failed" -> CorruptSnapshot

----------------------------------------------------------------------------
\* DocumentStorage: the mutations.

\* The record mark_file_processed builds from the raw file as it is now.
mark_record(raw_file, filename, time) ==
    [hash           |-> _get_file_hash(raw_file),
     processed_at   |-> time,
     raw_path       |-> RAW_PATH(filename),
     processed_path |-> PROCESSED_PATH(filename),
     size           |-> IF raw_file.exists THEN st_size(raw_file.bytes) ELSE 0]

\* Mutant: a record that exists is updated in place, hash only.
mark_file_processed_merging(m, raw_file, filename, time) ==
    IF filename \in DOMAIN m
    THEN [m EXCEPT ![filename].hash = _get_file_hash(raw_file)]
    ELSE (filename :> mark_record(raw_file, filename, time)) @@ m

\* Mutant: the mapping is rebuilt around the new record (a lost update).
mark_file_processed_alone(m, raw_file, filename, time) ==
    (filename :> mark_record(raw_file, filename, time))

\* self.metadata[file_key] = {...}
mark_file_processed(m, raw_file, filename, time) ==
    (filename :> mark_record(raw_file, filename, time)) @@ m

WriteOutcomes == {"ok", "open_failed", "write_failed"}

\* Mutant: a failed write removes what it left behind.
write_processed_file_unlinking(old, content, outcome) ==
    CASE outcome = "ok"           -> File(utf8_encode(content))
      [] outcome = "open_failed"  -> old
      [] outcome = "write_failed" -> Absent

\* write_processed_file: the file afterwards
write_processed_file(old, content, outcome) ==
    CASE outcome = "ok"           -> File(utf8_encode(content))
      [] outcome = "open_failed"  -> old
      [] outcome = "write_failed" -> File(NoBytes)

----------------------------------------------------------------------------
\* The messages process_raw_file returns: <<template, filename, text>>.

NoText == Str(NoBytes)

ConfigError ==
    <<"Error: ANTHROPIC_API_KEY not configured. Please set the API key in your environment.",
      "", NoText>>
NotFoundError(filename) ==
    <<"Error: File '%s' not found in raw directory", filename, NoText>>
ReadError(filename) ==
    <<"Error: Could not read file '%s'", filename, NoText>>
WriteError(filename) ==
    <<"Error: Failed to save processed content for '%s'", filename, NoText>>
ServiceError(filename) ==
    <<"Error processing file '%s': %s", filename, NoText>>
\* texts of the model are shorter than 300 characters: the preview is the text
Success(filename, processed_content) ==
    <<"Successfully processed '%s' ... saved to: %s ... Preview: %s",
      filename, processed_content>>
NoResult == <<"", "", NoText>>

IsSuccess(result) == result[1] = Success("", NoText)[1]

----------------------------------------------------------------------------
\* process_raw_file, in the two steps the await splits it into.  A task
\* records the workflow states its invocation has passed through.

AtStart       == <<"Start">>
AtConfig      == <<"Start", "ConfigChecked">>
AtFileFound   == <<"Start", "ConfigChecked", "FileFound">>
AtContentRead == <<"Start", "ConfigChecked", "FileFound", "ContentRead">>
AtImproved    == AtContentRead \o <<"Improved">>
AtWritten     == AtImproved \o <<"Written">>
AtUpdated     == AtWritten \o <<"MetadataUpdated">>

IdleTask ==
    [pc |-> "idle", filename |-> "", raw_content |-> None,
     result |-> NoResult, via |-> "storage", trace |-> <<>>]

Returned(filename, result, via, trace) ==
    [IdleTask EXCEPT !.pc = "done", !.filename = filename, !.result = result,
                     !.via = via, !.trace = trace]

\* Mutant: the raw file is looked up before the client is checked.
process_raw_file_start_file_first(client, file, filename, via) ==
    IF ~file.exists
    THEN Returned(filename, NotFoundError(filename), via, AtStart)
    ELSE IF ~client THEN Returned(filename, ConfigError, via, AtStart)
    ELSE IF read_file(file) = None
         THEN Returned(filename, ReadError(filename), via, AtFileFound)
    ELSE [IdleTask EXCEPT !.pc = "awaiting", !.filename = filename,
                          !.raw_content = read_file(file), !.via = via,
                          !.trace = AtContentRead]

\* Mutant: the content read is not checked before it is sent.
process_raw_file_start_unchecked_read(client, file, filename, via) ==
    IF ~client THEN Returned(filename, ConfigError, via, AtStart)
    ELSE IF ~file.exists
         THEN Returned(filename, NotFoundError(filename), via, AtConfig)
    ELSE [IdleTask EXCEPT !.pc = "awaiting", !.filename = filename,
                          !.raw_content = read_file(file), !.via = via,
                          !.trace = AtContentRead]

\* Lines 155-183: up to the await.
process_raw_file_start(client, file, filename, via) ==
    IF ~client THEN Returned(filename, ConfigError, via, AtStart)
    ELSE IF ~file.exists
         THEN Returned(filename, NotFoundError(filename), via, AtConfig)
    ELSE IF read_file(file) = None
         THEN Returned(filename, ReadError(filename), via, AtFileFound)
    ELSE [IdleTask EXCEPT !.pc = "awaiting", !.filename = filename,
                          !.raw_content = read_file(file), !.via = via,
                          !.trace = AtContentRead]

\* A new invocation runs as the first coroutine slot that is not suspended.
HasFreeSlot == \E t \in Tasks : task[t].pc # "awaiting"
FreeSlot == CHOOSE t \in Tasks :
    /\ task[t].pc # "awaiting"
    /\ \A u \in Tasks : task[u].pc # "awaiting" => t <= u

ProcessStartCore(t, filename, via) ==
    /\ HasFreeSlot
    /\ t = FreeSlot
    /\ calls < MaxCalls
    /\ calls' = calls + 1
    /\ task' = [task EXCEPT ![t] =
                  process_raw_file_start(anthropic_client, raw[filename], filename, via)]
    /\ UNCHANGED <<anthropic_client, raw, processed, metadata, snapshot,
                   envs, restarts, succeeded, lifeSucceeded>>

\* How the awaited call ends: it raises (or its response holds no text
\* block, which raises in line 195), or it returns a text.
CallOutcomes == {"raised", "returned"}

\* Mutant: the except branch saves the text it has (a fallback write).
processed_after_fallback_write(old, call, processed_content, w) ==
    write_processed_file(old, processed_content, w)

\* Lines 195-208, the processed file: written only when the call returned.
processed_after(old, call, processed_content, w) ==
    IF call = "returned" THEN write_processed_file(old, processed_content, w)
    ELSE old

\* Mutant: mark_file_processed runs whatever write_processed_file returned.
metadata_after_unchecked_write(m, raw_file, filename, time, call, w) ==
    IF call = "returned"
    THEN mark_file_processed(m, raw_file, filename, time)
    ELSE m

\* Mutant: the file is marked processed before the call is awaited, so a
\* failed call leaves a record.
metadata_after_early_mark(m, raw_file, filename, time, call, w) ==
    IF w = "ok" THEN mark_file_processed(m, raw_file, filename, time) ELSE m

\* Mutant: a name that has a record keeps it (the first writer wins).
metadata_after_first_wins(m, raw_file, filename, time, call, w) ==
    IF call = "returned" /\ w = "ok" /\ filename \notin DOMAIN m
    THEN mark_file_processed(m, raw_file, filename, time)
    ELSE m

\* Mutant: a failed invocation drops the record of its file.
metadata_after_drop_on_failure(m, raw_file, filename, time, call, w) ==
    IF call = "returned" /\ w = "ok"
    THEN mark_file_processed(m, raw_file, filename, time)
    ELSE [k \in DOMAIN m \ {filename} |-> m[k]]

\* Lines 198-208, the metadata: mark_file_processed runs only after
\* write_processed_file returned True.
metadata_after(m, raw_file, filename, time, call, w) ==
    IF call = "returned" /\ w = "ok"
    THEN mark_file_processed(m, raw_file, filename, time)
    ELSE m

\* Line 96: _save_metadata runs at the end of mark_file_processed.
snapshot_after(m, snap, call, w, s) ==
    IF call = "returned" /\ w = "ok" THEN _save_metadata(m, snap, s) ELSE snap

\* Mutant: the result of write_processed_file is not looked at.
result_after_ignoring_write(filename, call, processed_content, w) ==
    IF call = "raised" THEN ServiceError(filename)
    ELSE Success(filename, processed_content)

\* Lines 202-208: the message returned.
result_after(filename, call, processed_content, w) ==
    IF call = "raised" THEN ServiceError(filename)
    ELSE IF w = "ok" THEN Success(filename, processed_content)
    ELSE WriteError(filename)

trace_after(call, w) ==
    IF call = "raised" THEN AtContentRead
    ELSE IF w = "ok" THEN AtUpdated
    ELSE AtImproved

\* Lines 183-208: the external call returns or raises, and the rest runs
\* without another await.
ProcessResumeCore(t) ==
    /\ task[t].pc = "awaiting"
    /\ \E call \in CallOutcomes, w \in WriteOutcomes, s \in SaveOutcomes :
         LET filename == task[t].filename
             processed_content == Response(task[t].raw_content, t)
             result == result_after(filename, call, processed_content, w)
         IN  /\ call = "raised" => w = "ok"
             /\ (call = "raised" \/ w # "ok") => s = "ok"
             /\ processed' = [processed EXCEPT ![filename] =
                                processed_after(@, call, processed_content, w)]
             /\ metadata' = metadata_after(metadata, raw[filename], filename,
                                           calls, call, w)
             /\ snapshot' = snapshot_after(metadata', snapshot, call, w, s)
             /\ task' = [task EXCEPT ![t].pc = "done", ![t].result = result,
                                     ![t].trace = trace_after(call, w)]
             /\ succeeded' = IF IsSuccess(result) THEN succeeded \cup {filename}
                             ELSE succeeded
             /\ lifeSucceeded' = IF IsSuccess(result)
                                 THEN lifeSucceeded \cup {filename}
                                 ELSE lifeSucceeded
    /\ UNCHANGED <<anthropic_client, raw, calls, envs, restarts>>

ProcessStart(t, filename) ==
    ProcessStartCore(t, filename, "storage") /\ UNCHANGED dispatchVars

ProcessResume(t) ==
    task[t].via = "storage" /\ ProcessResumeCore(t) /\ UNCHANGED dispatchVars

----------------------------------------------------------------------------
\* The other users of the file system, and the server's restart.

EnvWriteRaw(filename, file) ==
    /\ envs < MaxEnv
    /\ file # raw[filename]
    /\ raw' = [raw EXCEPT ![filename] = file]
    /\ envs' = envs + 1
    /\ UNCHANGED <<anthropic_client, processed, metadata, snapshot, task,
                   calls, restarts, succeeded, lifeSucceeded, dispatchVars>>

EnvCorruptSnapshot ==
    /\ envs < MaxEnv
    /\ snapshot.state = "json"
    /\ snapshot' = CorruptSnapshot
    /\ envs' = envs + 1
    /\ UNCHANGED <<anthropic_client, raw, processed, metadata, task,
                   calls, restarts, succeeded, lifeSucceeded, dispatchVars>>

\* Mutant: a snapshot that cannot be parsed leaves the mapping as it was.
RestartKeepsMetadata ==
    /\ restarts < MaxRestarts
    /\ restarts' = restarts + 1
    /\ metadata' = IF snapshot.state = "corrupt" THEN metadata
                   ELSE _load_metadata(snapshot)
    /\ task' = [t \in Tasks |-> IdleTask]
    /\ lifeSucceeded' = {}
    /\ UNCHANGED <<anthropic_client, raw, processed, snapshot, calls, envs,
                   succeeded, handlers, last>>

\* config.py reads the key and DocumentStorage.__init__ loads the snapshot.
Restart ==
    /\ restarts < MaxRestarts
    /\ restarts' = restarts + 1
    /\ metadata' = _load_metadata(snapshot)
    /\ task' = [t \in Tasks |-> IdleTask]
    /\ lifeSucceeded' = {}
    /\ UNCHANGED <<anthropic_client, raw, processed, snapshot, calls, envs,
                   succeeded, dispatchVars>>

----------------------------------------------------------------------------
\* Listings.

\* Mutant: one more extension is scanned.
SupportedExtensionsWithPdf == <<".txt", ".md", ".text", ".pdf">>

\* The list the globs are made from.
SupportedExtensions == <<".txt", ".md", ".text">>

\* The names a directory can hold: those the workflow runs on, one more with
\* a supported extension and one with an extension that is not supported.
ListingNames == Names \cup {"c.text", "d.pdf"}

\* Path.suffix
Suffix(filename) ==
    CASE filename = "a.txt"  -> ".txt"
      [] filename = "b.md"   -> ".md"
      [] filename = "c.text" -> ".text"
      [] filename = "d.pdf"  -> ".pdf"
      [] OTHER               -> ""

\* The order sorted() puts the paths of one directory in.
NameRank(filename) ==
    CASE filename = "a.txt"  -> 1
      [] filename = "b.md"   -> 2
      [] filename = "c.text" -> 3
      [] filename = "d.pdf"  -> 4
      [] OTHER               -> 5

RECURSIVE Sorted(_)
Sorted(S) ==
    IF S = {} THEN <<>>
    ELSE LET least == CHOOSE x \in S : \A y \in S : NameRank(x) <= NameRank(y)
         IN  <<least>> \o Sorted(S \ {least})

Reverse(seq) == [i \in 1..Len(seq) |-> seq[Len(seq) + 1 - i]]

\* The order a directory scan yields its entries in is the file system's.
ScanOrders == {"ascending", "descending"}

\* dir.glob(f"*{ext}")
glob(dir, ext, scan) ==
    LET found == {n \in DOMAIN dir : dir[n].exists /\ Suffix(n) = ext}
    IN  IF scan = "ascending" THEN Sorted(found) ELSE Reverse(Sorted(found))

\* files.extend(...) for each extension in turn
RECURSIVE extend(_, _, _)
extend(dir, exts, scan) ==
    IF exts = <<>> THEN <<>>
    ELSE glob(dir, Head(exts), scan) \o extend(dir, Tail(exts), scan)

\* sorted(files): the least path first, every element kept
RECURSIVE sorted(_)
sorted(files) ==
    IF files = <<>> THEN <<>>
    ELSE LET i == CHOOSE i \in 1..Len(files) :
                    \A j \in 1..Len(files) :
                        NameRank(files[i]) <= NameRank(files[j])
         IN  <<files[i]>> \o
             sorted([k \in 1..(Len(files) - 1) |->
                        IF k < i THEN files[k] ELSE files[k + 1]])

get_files_scanned(dir, scan) == sorted(extend(dir, SupportedExtensions, scan))

\* get_raw_files / get_processed_files: glob per extension, then sorted
get_files(dir) == get_files_scanned(dir, "ascending")

get_raw_files == get_files(raw)

get_processed_files == get_files(processed)

\* Mutant: every raw file is reported (the filter is left out).
get_files_needing_processing_unfiltered == get_raw_files

get_files_needing_processing ==
    SelectSeq(get_raw_files, LAMBDA f : file_needs_processing(f))

----------------------------------------------------------------------------
\* Tool calls.  An argument map is a function from keys to strings; a reply
\* is the text of the single content block returned, or the exception that
\* left the dispatch function, with the storage methods called on the way.

ToolNames ==
    {"list_raw_files", "list_processed_files", "read_raw_file",
     "read_processed_file", "get_document_info", "list_all_documents",
     "check_files_needing_processing", "get_server_status", "process_raw_file"}

UnknownTool == "no_such_tool"

Arguments == {Empty} \cup {("filename" :> f) : f \in {""} \cup Names}

\* not arguments.get(key)
Falsy(arguments, key) == key \notin DOMAIN arguments \/ arguments[key] = ""

Text(template, arg, payload) == <<template, arg, payload>>

\* tried: the exception the handler's execute (or the lookup before it) raised
Reply(text, storage_calls) ==
    [raised |-> "", tried |-> "", text |-> text,
     storage_calls |-> storage_calls]

Raise(exception, storage_calls) ==
    [raised |-> exception, tried |-> exception, text |-> NoResult,
     storage_calls |-> storage_calls]

FilenameRequired == Text("Error: %s is required", "filename", NoText)

\* The results of the tools that do not await, as both dispatch paths
\* compute them from the storage.
list_raw_files_text ==
    Text("Found %d raw files:%s", "", get_raw_files)
list_processed_files_text ==
    Text("Found %d processed files:%s", "", get_processed_files)
read_raw_file_text(filename) ==
    IF read_raw_file(filename) = None
    THEN Text("Error: Could not read file '%s' or file does not exist",
              filename, NoText)
    ELSE Text("Content of '%s':%s", filename, read_raw_file(filename))
read_processed_file_text(filename) ==
    IF read_processed_file(filename) = None
    THEN Text("Error: Could not read processed file '%s' or file does not exist",
              filename, NoText)
    ELSE Text("Content of processed '%s':%s", filename,
              read_processed_file(filename))
get_document_info_text(filename) ==
    IF ~has_document_info(filename)
    THEN Text("No metadata found for '%s'", filename, NoText)
    ELSE Text("Document Information for '%s':%s", filename, metadata[filename])
list_all_documents_text ==
    IF DOMAIN metadata = {}
    THEN Text("No documents found in the system", "", NoText)
    ELSE Text("All Documents (%d total):%s", "", metadata)
check_files_needing_processing_text ==
    IF get_files_needing_processing = <<>>
    THEN Text("All files are up to date - no processing needed", "", NoText)
    ELSE Text("Found %d files needing processing:%s", "",
              get_files_needing_processing)
get_server_status_text ==
    Text("Handwritten Notes MCP Server Status ...", "",
         <<Len(get_raw_files), Len(get_processed_files),
           Len(get_files_needing_processing)>>)

\* server.py, call_tool: the branches that return without awaiting.  Every
\* branch builds TextContent(type="text", ...), which server.py imports.
call_tool(name, arguments) ==
    CASE name = "list_raw_files" ->
           Reply(list_raw_files_text, {"get_raw_files"})
      [] name = "list_processed_files" ->
           Reply(list_processed_files_text, {"get_processed_files"})
      [] name = "read_raw_file" ->
           IF Falsy(arguments, "filename") THEN Reply(FilenameRequired, {})
           ELSE Reply(read_raw_file_text(arguments["filename"]),
                      {"read_raw_file"})
      [] name = "read_processed_file" ->
           IF Falsy(arguments, "filename") THEN Reply(FilenameRequired, {})
           ELSE Reply(read_processed_file_text(arguments["filename"]),
                      {"read_processed_file"})
      [] name = "get_document_info" ->
           IF Falsy(arguments, "filename") THEN Reply(FilenameRequired, {})
           ELSE Reply(get_document_info_text(arguments["filename"]),
                      {"get_document_info"})
      [] name = "list_all_documents" ->
           Reply(list_all_documents_text, {"list_all_documents"})
      [] name = "check_files_needing_processing" ->
           Reply(check_files_needing_processing_text,
                 {"get_files_needing_processing"})
      [] name = "get_server_status" ->
           Reply(get_server_status_text,
                 {"get_raw_files", "get_processed_files",
                  "get_files_needing_processing"})
      [] name = "process_raw_file" ->
           Reply(FilenameRequired, {})    \* reached with a falsy filename only
      [] OTHER ->
           Reply(Text("Unknown tool: %s", name, NoText), {})

\* tool_handlers.py: the names its module namespace binds (its imports and
\* its own definitions), and the attributes a BaseToolHandler has.
tool_handlers_globals ==
    {"ABC", "abstractmethod", "Dict", "Any", "List", "Optional", "Callable",
     "Awaitable", "ContentBlock", "Tool", "logger", "BaseToolHandler",
     "ToolRegistry", "tool_registry"}

BaseToolHandler_attributes ==
    {"storage", "execute", "get_tool_definition", "validate_required_args"}

\* validate_required_args: the message for the first falsy required argument
validate_required_args(arguments, required) ==
    IF \E i \in 1..Len(required) : Falsy(arguments, required[i])
    THEN LET i == CHOOSE i \in 1..Len(required) :
                    /\ Falsy(arguments, required[i])
                    /\ \A j \in 1..(i - 1) : ~Falsy(arguments, required[j])
         IN  Text("Error: %s is required", required[i], NoText)
    ELSE NoResult

\* self.create_text_response(text): an attribute lookup on the handler
create_text_response(text, storage_calls) ==
    IF "create_text_response" \in BaseToolHandler_attributes
    THEN Reply(text, storage_calls)
    ELSE Raise("AttributeError", storage_calls)

\* handlers.py: the handler classes, by the tool each one defines.  They
\* build TextContent(text=...), which handlers.py imports.
HandlerClass ==
    [list_raw_files                 |-> "ListRawFilesHandler",
     list_processed_files           |-> "ListProcessedFilesHandler",
     read_raw_file                  |-> "ReadRawFileHandler",
     read_processed_file            |-> "ReadProcessedFileHandler",
     get_document_info              |-> "GetDocumentInfoHandler",
     list_all_documents             |-> "ListAllDocumentsHandler",
     check_files_needing_processing |-> "CheckFilesNeedingProcessingHandler",
     get_server_status              |-> "GetServerStatusHandler",
     process_raw_file               |-> "ProcessRawFileHandler"]

\* The order the classes are defined, and registered, in.
HandlerOrder ==
    <<"list_raw_files", "list_processed_files", "read_raw_file",
      "read_processed_file", "get_document_info", "list_all_documents",
      "check_files_needing_processing", "get_server_status",
      "process_raw_file">>

\* <handler>.execute(arguments), for the handlers that do not await
execute(handler, arguments) ==
    LET error == validate_required_args(arguments, <<"filename">>) IN
    CASE handler = "ListRawFilesHandler" ->
           Reply(list_raw_files_text, {"get_raw_files"})
      [] handler = "ListProcessedFilesHandler" ->
           Reply(list_processed_files_text, {"get_processed_files"})
      [] handler = "ReadRawFileHandler" ->
           IF error # NoResult THEN create_text_response(error, {})
           ELSE IF read_raw_file(arguments["filename"]) = None
           THEN create_text_response(read_raw_file_text(arguments["filename"]),
                                     {"read_raw_file"})
           ELSE Reply(read_raw_file_text(arguments["filename"]),
                      {"read_raw_file"})
      [] handler = "ReadProcessedFileHandler" ->
           IF error # NoResult THEN Reply(error, {})
           ELSE Reply(read_processed_file_text(arguments["filename"]),
                      {"read_processed_file"})
      [] handler = "GetDocumentInfoHandler" ->
           IF error # NoResult THEN Reply(error, {})
           ELSE Reply(get_document_info_text(arguments["filename"]),
                      {"get_document_info"})
      [] handler = "ListAllDocumentsHandler" ->
           Reply(list_all_documents_text, {"list_all_documents"})
      [] handler = "CheckFilesNeedingProcessingHandler" ->
           Reply(check_files_needing_processing_text,
                 {"get_files_needing_processing"})
      [] handler = "GetServerStatusHandler" ->
           Reply(get_server_status_text,
                 {"get_raw_files", "get_processed_files",
                  "get_files_needing_processing"})
      [] handler = "ProcessRawFileHandler" ->
           Reply(error, {})               \* reached with a falsy filename only

\* TextContent(type="text", text=...) inside tool_handlers.py: a lookup of
\* the global name TextContent
registry_text_content(text, storage_calls) ==
    IF "TextContent" \in tool_handlers_globals
    THEN Reply(text, storage_calls)
    ELSE Raise("NameError", storage_calls)

\* The except branch of execute_tool, entered with what the try block raised.
execute_tool_except(name, tried) ==
    IF tried.raised = "" THEN tried
    ELSE [registry_text_content(
              Text("Error executing %s: %s", name, tried.raised),
              tried.storage_calls) EXCEPT !.tried = tried.raised]

\* ToolRegistry.execute_tool, for a handler that does not await
execute_tool(registry, name, arguments) ==
    execute_tool_except(name,
        IF name \notin DOMAIN registry
        THEN registry_text_content(Text("Unknown tool: %s", name, NoText), {})
        ELSE execute(registry[name], arguments))

----------------------------------------------------------------------------
\* The two dispatch paths as steps.  A reply is handed to the transport
\* before the next call is taken.

NoCall == [path |-> "", name |-> "", arguments |-> Empty, raised |-> "",
           tried |-> "", text |-> NoResult, storage_calls |-> {}]

Called(path, name, arguments, reply) ==
    [path |-> path, name |-> name, arguments |-> arguments,
     raised |-> reply.raised, tried |-> reply.tried, text |-> reply.text,
     storage_calls |-> reply.storage_calls]

\* process_raw_file awaits: the reply is its message once it has returned.
ProcessReply(path, name, tk) ==
    Called(path, name, ("filename" :> tk.filename),
           IF path = "registry"
           THEN execute_tool_except(name, Reply(tk.result, {"process_raw_file"}))
           ELSE Reply(tk.result, {"process_raw_file"}))

\* Mutant: no call is taken while an external call is pending (a client
\* that blocks the event loop instead of suspending the coroutine).
IdleUnlessPending ==
    last.path = "" /\ \A t \in Tasks : task[t].pc # "awaiting"

Idle == last.path = ""

\* ToolRegistry.register
Register(name) ==
    /\ Idle
    /\ \E i \in 1..Len(HandlerOrder) :
          /\ HandlerOrder[i] = name
          /\ \A j \in 1..Len(HandlerOrder) :
                (HandlerOrder[j] \in DOMAIN handlers) <=> (j < i)
    /\ handlers' = (name :> HandlerClass[name]) @@ handlers
    /\ UNCHANGED <<storageVars, last>>

\* server.py, call_tool
CallTool(name, arguments) ==
    /\ Idle
    /\ \/ /\ name = "process_raw_file"
          /\ ~Falsy(arguments, "filename")
          /\ ProcessStartCore(FreeSlot, arguments["filename"], "server")
          /\ last' = IF task'[FreeSlot].pc = "done"
                     THEN ProcessReply("server", name, task'[FreeSlot])
                     ELSE last
       \/ /\ ~(name = "process_raw_file" /\ ~Falsy(arguments, "filename"))
          /\ last' = Called("server", name, arguments, call_tool(name, arguments))
          /\ UNCHANGED storageVars
    /\ UNCHANGED handlers

\* ToolRegistry.execute_tool
ExecuteTool(name, arguments) ==
    /\ Idle
    /\ \/ /\ name \in DOMAIN handlers
          /\ handlers[name] = "ProcessRawFileHandler"
          /\ ~Falsy(arguments, "filename")
          /\ ProcessStartCore(FreeSlot, arguments["filename"], "registry")
          /\ last' = IF task'[FreeSlot].pc = "done"
                     THEN ProcessReply("registry", name, task'[FreeSlot])
                     ELSE last
       \/ /\ ~( /\ name \in DOMAIN handlers
                /\ handlers[name] = "ProcessRawFileHandler"
                /\ ~Falsy(arguments, "filename") )
          /\ last' = Called("registry", name, arguments,
                            execute_tool(handlers, name, arguments))
          /\ UNCHANGED storageVars
    /\ UNCHANGED handlers

\* The awaited call of a dispatched process_raw_file ends.
ResumeTool(t) ==
    /\ Idle
    /\ task[t].via \in {"server", "registry"}
    /\ ProcessResumeCore(t)
    /\ last' = ProcessReply(task[t].via, "process_raw_file", task'[t])
    /\ UNCHANGED handlers

\* The transport takes the reply.
Deliver ==
    /\ ~Idle
    /\ last' = NoCall
    /\ UNCHANGED <<storageVars, handlers>>

----------------------------------------------------------------------------
InitRaw == [Names -> {Absent, File(<<"b1", 0>>)}]

Init ==
    /\ anthropic_client \in BOOLEAN
    /\ raw \in InitRaw
    /\ processed = [n \in Names |-> Absent]
    /\ snapshot = NoSnapshot
    /\ metadata = _load_metadata(snapshot)
    /\ task = [t \in Tasks |-> IdleTask]
    /\ calls = 0
    /\ envs = 0
    /\ restarts = 0
    /\ succeeded = {}
    /\ lifeSucceeded = {}
    /\ handlers = Empty
    /\ last = NoCall

Next ==
    \/ \E t \in Tasks, filename \in Names : ProcessStart(t, filename)
    \/ \E t \in Tasks : ProcessResume(t)
    \/ \E filename \in Names, file \in RawFiles \cup {Absent} :
          EnvWriteRaw(filename, file)
    \/ EnvCorruptSnapshot
    \/ Restart

Spec == Init /\ [][Next]_vars

\* The server taking tool calls on both dispatch paths, over a raw directory
\* that holds a.txt and not b.md.
InitDispatch ==
    /\ Init
    /\ raw = [n \in Names |-> IF n = "a.txt" THEN File(<<"b1", 0>>) ELSE Absent]

NextDispatch ==
    \/ \E name \in ToolNames : Register(name)
    \/ \E name \in ToolNames \cup {UnknownTool}, arguments \in Arguments :
          CallTool(name, arguments)
    \/ \E name \in ToolNames \cup {UnknownTool}, arguments \in Arguments :
          ExecuteTool(name, arguments)
    \/ \E t \in Tasks : ResumeTool(t)
    \/ Deliver

SpecDispatch == InitDispatch /\ [][NextDispatch]_vars

\* Two process_raw_file invocations, one per coroutine: the second can only
\* start while the first is suspended on its external call.
RaceStart(t, filename) ==
    task[t].pc = "idle" /\ ProcessStart(t, filename)

NextRace ==
    \/ \E t \in Tasks, filename \in Names : RaceStart(t, filename)
    \/ \E t \in Tasks : ProcessResume(t)
    \/ \E filename \in Names, file \in RawFiles \cup {Absent} :
          EnvWriteRaw(filename, file)

SpecRace == Init /\ [][NextRace]_vars

\* The listing tools over directories that also hold files the workflow does
\* not run on.  a.txt may have been processed when it held b1.
ListingTools ==
    {"list_raw_files", "list_processed_files",
     "check_files_needing_processing", "get_server_status"}

InitListing ==
    /\ anthropic_client = TRUE
    /\ raw \in {d \in [ListingNames -> {Absent, File(<<"b1", 0>>), File(<<"b2", 0>>)}] :
                   \A n \in ListingNames \ {"a.txt"} : d[n] # File(<<"b2", 0>>)}
    /\ processed \in [ListingNames -> {Absent, File(<<"b1", 1>>)}]
    /\ metadata \in {Empty, mark_file_processed(Empty, File(<<"b1", 0>>), "a.txt", 1)}
    /\ snapshot = IF metadata = Empty THEN NoSnapshot ELSE Json(dumps(metadata))
    /\ task = [t \in Tasks |-> IdleTask]
    /\ calls = Cardinality(DOMAIN metadata)
    /\ envs = 0
    /\ restarts = Cardinality(DOMAIN metadata)
    /\ succeeded = DOMAIN metadata
    /\ lifeSucceeded = {}
    /\ handlers = Empty
    /\ last = NoCall

\* server.py, call_tool, for a tool without arguments
CallListing(name) ==
    /\ Idle
    /\ last' = Called("server", name, Empty, call_tool(name, Empty))
    /\ UNCHANGED <<storageVars, handlers>>

\* ToolRegistry.execute_tool, for a registered tool without arguments
ExecuteListing(name) ==
    /\ Idle
    /\ name \in DOMAIN handlers
    /\ last' = Called("registry", name, Empty, execute_tool(handlers, name, Empty))
    /\ UNCHANGED <<storageVars, handlers>>

NextListing ==
    \/ \E name \in ToolNames : Register(name)
    \/ \E name \in ListingTools : CallListing(name)
    \/ \E name \in ListingTools : ExecuteListing(name)
    \/ Deliver

SpecListing == InitListing /\ [][NextListing]_vars

----------------------------------------------------------------------------
\* Steps of an invocation, as seen from outside.

\* Invocation t, processing filename n, ends its awaited call in this step.
Resumes(t, n) ==
    task[t].pc = "awaiting" /\ task'[t].pc = "done" /\ task[t].filename = n

\* ... and returns the success message.
Succeeds(t, n) == Resumes(t, n) /\ IsSuccess(task'[t].result)

\* An invocation starts as coroutine t in this step.
Starts(t) == calls' = calls + 1 /\ t = FreeSlot

NeedsNext(n) == file_needs_processing_in(metadata', raw'[n], n)

----------------------------------------------------------------------------
\* C1: an existing raw file without a record needs processing; when a
\* process_raw_file of it returns success it no longer does, and that stays
\* so while its bytes are untouched and the server runs; once its bytes are
\* replaced by content with another hash it needs processing again, with
\* nothing else changed.
StalenessCorrectness ==
    /\ \A n \in Names :
         (raw[n].exists /\ n \notin DOMAIN metadata) => file_needs_processing(n)
    /\ [][\A n \in Names :
            /\ (raw'[n].exists /\ n \notin DOMAIN metadata') => NeedsNext(n)
            /\ (\E t \in Tasks : Succeeds(t, n)) => ~NeedsNext(n)
            /\ ( /\ n \in DOMAIN metadata
                 /\ ~file_needs_processing(n)
                 /\ raw'[n] = raw[n]
                 /\ restarts' = restarts ) => ~NeedsNext(n)
            /\ ( /\ n \in DOMAIN metadata
                 /\ ~file_needs_processing(n)
                 /\ raw[n].exists /\ raw'[n].exists
                 /\ raw'[n].bytes # raw[n].bytes
                 /\ _get_file_hash(raw'[n]) # _get_file_hash(raw[n])
                 /\ metadata' = metadata ) => NeedsNext(n)
         ]_vars

\* C1 witness: a file processed from the bytes it then held has since been
\* replaced by content with another hash, and is reported stale.
StalenessWitness ==
    \E t \in Tasks :
        LET n == task[t].filename IN
        /\ task[t].pc = "done" /\ IsSuccess(task[t].result)
        /\ n \in DOMAIN metadata
        /\ metadata[n].hash = md5(utf8_encode(task[t].raw_content))
        /\ raw[n].exists /\ raw[n].readable
        /\ md5(raw[n].bytes) # metadata[n].hash
        /\ file_needs_processing(n)

\* C2: when process_raw_file(name) returns success, the hash stored for name
\* is the hash of the bytes the invocation read when it started.
ProcessSuccessHash ==
    [][\A t \in Tasks, n \in Names :
          Succeeds(t, n) =>
             /\ n \in DOMAIN metadata'
             /\ metadata'[n].hash = md5(utf8_encode(task[t].raw_content))
      ]_vars

\* C3: an invocation whose external call raises returns the processing
\* error, leaves the metadata (in memory and on disk) as it was and does not
\* touch the processed file.
ProcessFailureInvariant ==
    [][\A t \in Tasks, n \in Names :
          (Resumes(t, n) /\ task'[t].trace = AtContentRead) =>
             /\ task'[t].result = ServiceError(n)
             /\ metadata' = metadata
             /\ snapshot' = snapshot
             /\ processed' = processed
      ]_vars

\* C3 witness: an invocation has ended with the processing error.
ProcessFailureWitness ==
    \E t \in Tasks :
        /\ task[t].pc = "done"
        /\ task[t].result = ServiceError(task[t].filename)
        /\ task[t].trace = AtContentRead
        /\ task[t].filename \notin DOMAIN metadata
        /\ ~processed[task[t].filename].exists

WriteFailureOutcome ==
    [][\A t \in Tasks, n \in Names :
          (Resumes(t, n) /\ task'[t].trace = AtImproved) =>
             /\ task'[t].result = WriteError(n)
             /\ metadata' = metadata
             /\ snapshot' = snapshot
      ]_vars

\* C5 witness: an invocation has ended with the write error, its processed
\* file truncated by the failed write, and no record.
WriteFailureWitness ==
    \E t \in Tasks :
        /\ task[t].pc = "done"
        /\ task[t].result = WriteError(task[t].filename)
        /\ task[t].trace = AtImproved
        /\ processed[task[t].filename] = File(NoBytes)
        /\ task[t].filename \notin DOMAIN metadata

\* C6: without a client, process_raw_file returns the configuration error
\* for every filename, whether its raw file exists or not, never awaits the
\* external call, and leaves the metadata and the processed files alone.
ConfigurationErrorFirst ==
    /\ ~anthropic_client => \A t \in Tasks : task[t].pc # "awaiting"
    /\ [][\A t \in Tasks :
            (Starts(t) /\ ~anthropic_client) =>
               /\ task'[t].pc = "done"
               /\ task'[t].result = ConfigError
               /\ task'[t].trace = AtStart
               /\ metadata' = metadata
               /\ snapshot' = snapshot
               /\ processed' = processed
         ]_vars

\* C6 witness: the configuration error was returned for a filename that has
\* no raw file, where the not-found error would otherwise apply.
ConfigurationErrorWitness ==
    /\ ~anthropic_client
    /\ \E t \in Tasks :
          /\ task[t].pc = "done"
          /\ task[t].result = ConfigError
          /\ ~raw[task[t].filename].exists
          /\ envs = 0

----------------------------------------------------------------------------
\* Claims about the dispatch paths, over SpecDispatch.

FilenameTools ==
    {"read_raw_file", "read_processed_file", "get_document_info",
     "process_raw_file"}

\* The last call reached the code of tool `name`.
Dispatched(name) ==
    /\ last.name = name
    /\ \/ last.path = "server"
       \/ last.path = "registry" /\ name \in DOMAIN handlers

\* C7: a tool that requires filename, called without it or with "", returns
\* "Error: filename is required" and calls no storage method.
ValidationBeforeStorage ==
    \A name \in FilenameTools :
        (Dispatched(name) /\ Falsy(last.arguments, "filename")) =>
            /\ last.raised = ""
            /\ last.text[1] = "Error: %s is required"
            /\ last.text[2] = "filename"
            /\ last.storage_calls = {}

\* C8: a dispatch returns content blocks and raises nothing; when the
\* handler's execute failed, the block reads "Error executing <name>: ...".
DispatchNeverRaises ==
    last.path # "" =>
        /\ last.raised = ""
        /\ last.tried # "" =>
              /\ last.text[1] = "Error executing %s: %s"
              /\ last.text[2] = last.name

\* C9: a name that is not registered yields the block "Unknown tool: <name>",
\* raises nothing and calls no storage method.
UnknownOperation ==
    ( \/ last.path = "server" /\ last.name \notin ToolNames
      \/ last.path = "registry" /\ last.name \notin DOMAIN handlers ) =>
        /\ last.raised = ""
        /\ last.text[1] = "Unknown tool: %s"
        /\ last.text[2] = last.name
        /\ last.storage_calls = {}

\* C10: read_raw_file for a filename with no raw file returns the not-found
\* message as a block, on either dispatch path.
NotFoundRead ==
    ( /\ Dispatched("read_raw_file")
      /\ ~Falsy(last.arguments, "filename")
      /\ ~raw[last.arguments["filename"]].exists ) =>
        /\ last.raised = ""
        /\ last.text[1] = "Error: Could not read file '%s' or file does not exist"
        /\ last.text[2] = last.arguments["filename"]

\* C13: for an existing raw file whose bytes cannot be read, _get_file_hash
\* is "" and file_needs_processing is true, whatever the metadata holds.
HashFailureDegradation ==
    \A n \in Names :
        (raw[n].exists /\ ~raw[n].readable) =>
            /\ _get_file_hash(raw[n]) = ""
            /\ file_needs_processing(n)

\* C14: constructing the storage over a snapshot that cannot be parsed does
\* not fail and gives the empty mapping: no name has a record and every
\* existing raw file needs processing.
CorruptMetadataRecovery ==
    /\ (snapshot.state = "corrupt" /\ restarts < MaxRestarts) => ENABLED Restart
    /\ [][(restarts' = restarts + 1 /\ snapshot.state = "corrupt") =>
            /\ metadata' = Empty
            /\ \A n \in Names :
                  /\ n \notin DOMAIN metadata'
                  /\ raw'[n].exists => NeedsNext(n)
         ]_vars

\* C14 witness: the server restarted over an unparsable snapshot; a file
\* processed before the restart has no record and needs processing again.
CorruptMetadataRecoveryWitness ==
    /\ restarts = 1
    /\ snapshot.state = "corrupt"
    /\ lifeSucceeded = {}
    /\ \E n \in succeeded :
          /\ ~has_document_info(n)
          /\ raw[n].exists
          /\ file_needs_processing(n)

SaveFailureNotEscalated ==
    [][\A t \in Tasks, n \in Names :
          (Succeeds(t, n) /\ _load_metadata(snapshot') # metadata') =>
             /\ n \in DOMAIN metadata'
             /\ metadata'[n] = mark_record(raw[n], n, calls)
             /\ ~NeedsNext(n)
             /\ _load_metadata(snapshot') = _load_metadata(snapshot)
      ]_vars

\* C17: when an invocation returns success, the processed file holds the
\* text the external call returned to it, and reads back as that text.
ProcessedContentFidelity ==
    [][\A t \in Tasks, n \in Names :
          Succeeds(t, n) =>
             /\ task'[t].result[3] = Response(task[t].raw_content, t)
             /\ processed'[n] = File(utf8_encode(task'[t].result[3]))
             /\ read_file(processed'[n]) = task'[t].result[3]
      ]_vars

\* C17 witness: two invocations of one file have returned success with
\* different texts; the processed file holds the text of the second.
ProcessedContentFidelityWitness ==
    \E n \in Names :
        /\ \A t \in Tasks :
              /\ task[t].pc = "done" /\ task[t].filename = n
              /\ IsSuccess(task[t].result)
        /\ task[1].result[3] # task[2].result[3]
        /\ read_processed_file(n) = task[2].result[3]

\* C18: a raw file that does not exist does not need processing, with or
\* without a record, whatever hash the record holds.
ClosedOverDeleted ==
    \A n \in Names :
        ~raw[n].exists =>
            \A m \in {metadata, Empty, _load_metadata(snapshot)} :
                ~file_needs_processing_in(m, raw[n], n)

\* C18 witness: a processed file was deleted; its record holds the hash of
\* its bytes, and it does not need processing.
ClosedOverDeletedWitness ==
    \E n \in Names :
        /\ ~raw[n].exists
        /\ has_document_info(n)
        /\ metadata[n].hash # ""
        /\ ~file_needs_processing(n)

\* C12: while a process_raw_file invocation is suspended on its external
\* call, every other tool call, on either dispatch path, can be taken and
\* runs to its reply without the external call returning; so can another
\* process_raw_file call (as long as the model has a coroutine left for it).
NonBlockingProcess ==
    (last = NoCall /\ \E t \in Tasks : task[t].pc = "awaiting") =>
        /\ \A name \in (ToolNames \cup {UnknownTool}) \ {"process_raw_file"},
              arguments \in Arguments :
              /\ ENABLED CallTool(name, arguments)
              /\ ENABLED ExecuteTool(name, arguments)
        /\ (calls < MaxCalls /\ HasFreeSlot) =>
              \A filename \in Names :
                 /\ ENABLED CallTool("process_raw_file", "filename" :> filename)
                 /\ ENABLED ExecuteTool("process_raw_file", "filename" :> filename)

\* C12 witness: list_raw_files has returned its listing while an invocation
\* of process_raw_file is still suspended.
NonBlockingProcessWitness ==
    /\ \E t \in Tasks : task[t].pc = "awaiting"
    /\ last.name = "list_raw_files"
    /\ last.raised = ""
    /\ last.text[1] = "Found %d raw files:%s"
    /\ last.text[3] = <<"a.txt">>

----------------------------------------------------------------------------
\* Claims about overlapping invocations, over SpecRace.

\* Invocation t of filename n ends its awaited call after invocation u of the
\* same file, which had read and called while t was suspended too, has ended.
FinishesLast(t, u, n) ==
    /\ t # u
    /\ Resumes(t, n)
    /\ task[u].pc = "done"
    /\ task[u].filename = n
    /\ Len(task[u].trace) >= Len(AtContentRead)

\* The processed file and the record the resuming invocation t makes.
ProducedBy(t, n) ==
    /\ processed'[n] = File(utf8_encode(Response(task[t].raw_content, t)))
    /\ n \in DOMAIN metadata'
    /\ metadata'[n] = mark_record(raw[n], n, calls)

\* Whatever record and processed file n has after t resumed, t made.
OnlyBy(t, n) ==
    /\ n \in DOMAIN metadata' =>
          /\ IsSuccess(task'[t].result)
          /\ metadata'[n] = mark_record(raw[n], n, calls)
    /\ processed'[n].exists =>
          /\ task'[t].trace # AtContentRead
          /\ processed'[n] \in
                {File(utf8_encode(Response(task[t].raw_content, t))), File(NoBytes)}

\* C11 as stated: of two invocations of one file that both read and called
\* before either wrote, the one that finishes last has made the record and
\* the processed file the name ends with.
SameDocumentRace ==
    [][\A t, u \in Tasks, n \in Names :
          FinishesLast(t, u, n) => OnlyBy(t, n)
      ]_vars

\* C11 amended: the one that finishes last leaves its processed file and its
\* record when it succeeds; when it fails, the record is the one the other
\* left, and the processed file is the other's unless the failed write
\* truncated it.
LastSuccessWins ==
    [][\A t, u \in Tasks, n \in Names :
          FinishesLast(t, u, n) =>
             IF IsSuccess(task'[t].result) THEN ProducedBy(t, n)
             ELSE /\ metadata' = metadata
                  /\ processed'[n] \in {processed[n], File(NoBytes)}
      ]_vars

\* C11 witness: both invocations of one file were suspended together, the
\* file changed, and the invocation that started first finished last: the
\* processed file holds its text and the record the hash taken at its end.
SameDocumentRaceWitness ==
    \E n \in Names :
        /\ \A t \in Tasks :
              /\ task[t].pc = "done" /\ task[t].filename = n
              /\ IsSuccess(task[t].result)
        /\ task[1].raw_content = task[2].raw_content
        /\ processed[n] = File(utf8_encode(Response(task[1].raw_content, 1)))
        /\ n \in DOMAIN metadata
        /\ raw[n].exists
        /\ metadata[n].hash = _get_file_hash(raw[n])
        /\ metadata[n].hash # md5(utf8_encode(task[1].raw_content))
        /\ envs = 1

----------------------------------------------------------------------------
\* Claims about the listings, over SpecListing.

Elements(seq) == {seq[i] : i \in 1..Len(seq)}

\* Ascending by name, which leaves no room for a duplicate.
Ascending(seq) ==
    \A i, j \in 1..Len(seq) : i < j => NameRank(seq[i]) < NameRank(seq[j])

\* The tool `name` has returned its text on either dispatch path.
Returns(name) == last.name = name /\ last.raised = ""

\* C19: get_files_needing_processing is get_raw_files without the files that
\* do not need processing, in the same order and without duplicates; the
\* stale count of get_server_status is its length and never exceeds the raw
\* count.
StaleListing ==
    LET stale == get_files_needing_processing IN
    /\ Elements(stale) = {n \in Elements(get_raw_files) : file_needs_processing(n)}
    /\ Ascending(stale)
    /\ Len(stale) <= Len(get_raw_files)
    /\ Returns("check_files_needing_processing") =>
          IF stale = <<>>
          THEN last.text[1] = "All files are up to date - no processing needed"
          ELSE last.text[3] = stale
    /\ Returns("get_server_status") =>
          /\ last.text[3][1] = Len(get_raw_files)
          /\ last.text[3][3] = Len(stale)
          /\ last.text[3][3] <= last.text[3][1]

\* C19 witness: of three raw files listed, a.txt is up to date and the two
\* others are reported by check_files_needing_processing, in order.
StaleListingWitness ==
    /\ Returns("check_files_needing_processing")
    /\ get_raw_files = <<"a.txt", "b.md", "c.text">>
    /\ raw["d.pdf"].exists
    /\ last.text[3] = <<"b.md", "c.text">>

\* C20: get_raw_files and get_processed_files hold exactly the files of their
\* directory with extension .txt, .md or .text, each once, ascending by
\* name, whatever order the directory is scanned in; list_raw_files and
\* list_processed_files return these sequences.
Listing ==
    /\ \A dir \in {raw, processed} :
          /\ Elements(get_files(dir)) =
                {n \in DOMAIN dir :
                    dir[n].exists /\ Suffix(n) \in {".txt", ".md", ".text"}}
          /\ Ascending(get_files(dir))
          /\ \A scan \in ScanOrders : get_files_scanned(dir, scan) = get_files(dir)
    /\ Returns("list_raw_files") => last.text[3] = get_raw_files
    /\ Returns("list_processed_files") => last.text[3] = get_processed_files

\* C20 witness: list_raw_files has returned the three supported files of a
\* raw directory that also holds d.pdf.
ListingWitness ==
    /\ Returns("list_raw_files")
    /\ \A n \in ListingNames : raw[n].exists
    /\ last.text[3] = <<"a.txt", "b.md", "c.text">>
    /\ get_files_scanned(raw, "descending") = last.text[3]

----------------------------------------------------------------------------
\* Claims about the workflow of one invocation, over SpecRace.

IsPrefix(p, q) == Len(p) <= Len(q) /\ \A i \in 1..Len(p) : p[i] = q[i]

Terminal(tk) == tk.pc = "done" /\ tk.result # NoResult

\* C21: an invocation passes through a prefix of Start, ConfigChecked,
\* FileFound, ContentRead, Improved, Written, MetadataUpdated and never goes
\* back; it is suspended on the external call at most once; it ends with one
\* outcome, which then stays; an exit at the failed call leaves the metadata
\* and the processed files alone, an exit at the failed write the metadata.
ForwardOnly ==
    [][\A t \in Tasks :
          /\ IsPrefix(task'[t].trace, AtUpdated)
          /\ task'[t].pc = "done" => Terminal(task'[t])
          /\ task'[t].pc = "awaiting" =>
                task'[t].trace = AtContentRead /\ task'[t].result = NoResult
          /\ task[t].pc = "awaiting" =>
                /\ IsPrefix(task[t].trace, task'[t].trace)
                /\ task'[t].filename = task[t].filename
                /\ task'[t].pc = "awaiting" => task'[t] = task[t]
          /\ (task[t].pc = "done" /\ ~Starts(t)) => task'[t] = task[t]
          /\ (task[t].pc # "awaiting" /\ task'[t].pc = "awaiting") => Starts(t)
          /\ ( /\ task[t].pc = "awaiting" /\ task'[t].pc = "done"
               /\ task'[t].trace = AtContentRead ) =>
                /\ metadata' = metadata /\ snapshot' = snapshot
                /\ processed' = processed
          /\ ( /\ task[t].pc = "awaiting" /\ task'[t].pc = "done"
               /\ task'[t].trace = AtImproved ) =>
                /\ metadata' = metadata /\ snapshot' = snapshot
      ]_vars

\* C21 witness: one invocation has gone all the way to MetadataUpdated and
\* another has left at ContentRead, after the first, without undoing it.
ForwardOnlyWitness ==
    \E t, u \in Tasks :
        /\ Terminal(task[t]) /\ task[t].trace = AtUpdated
        /\ Terminal(task[u]) /\ task[u].trace = AtContentRead
        /\ task[u].filename = task[t].filename
        /\ task[t].filename \in DOMAIN metadata
        /\ processed[task[t].filename] =
              File(utf8_encode(Response(task[t].raw_content, t)))

\* C22: with a client, process_raw_file of a name with no raw file returns
\* the not-found error, and of a raw file that cannot be read or decoded the
\* read error; it is never suspended on the external call, and the metadata
\* and the processed files stay as they were.
EarlyShortCircuit ==
    [][\A t \in Tasks, n \in Names :
          ( /\ Starts(t) /\ task'[t].filename = n /\ anthropic_client
            /\ ~raw[n].exists \/ read_raw_file(n) = None ) =>
             /\ task'[t].pc = "done"
             /\ task'[t].result =
                   IF ~raw[n].exists THEN NotFoundError(n) ELSE ReadError(n)
             /\ Len(task'[t].trace) < Len(AtContentRead)
             /\ metadata' = metadata /\ snapshot' = snapshot
             /\ processed' = processed
      ]_vars

\* C22 witness: an invocation has ended with the read error on a file that
\* exists and holds bytes that are not UTF-8.
EarlyShortCircuitWitness ==
    \E t \in Tasks :
        /\ anthropic_client
        /\ Terminal(task[t])
        /\ task[t].result = ReadError(task[t].filename)
        /\ raw[task[t].filename] = File(<<"bx", 0>>)
        /\ task[t].trace = AtFileFound

\* C23: the record a successful invocation leaves holds the hash and the
\* size of the raw file as it is when the invocation resumes and marks (the
\* empty hash when it cannot be read, size 0 when it is gone), and replaces
\* whatever record the name had; no other record changes.
MarkRecordsCurrentState ==
    [][\A t \in Tasks, n \in Names :
          Succeeds(t, n) =>
             /\ n \in DOMAIN metadata'
             /\ metadata'[n].hash = _get_file_hash(raw[n])
             /\ metadata'[n].size =
                   IF raw[n].exists THEN st_size(raw[n].bytes) ELSE 0
             /\ metadata'[n] = mark_record(raw[n], n, calls)
             /\ DOMAIN metadata' = DOMAIN metadata \cup {n}
             /\ \A k \in DOMAIN metadata \ {n} : metadata'[k] = metadata[k]
      ]_vars

\* C23 witness: a file was processed twice, overlapping; it changed while
\* the invocations were under way, and its record holds the hash and size of
\* the new bytes, not of the bytes both invocations had read.
MarkRecordsCurrentStateWitness ==
    \E n \in Names :
        /\ \A t \in Tasks :
              /\ Terminal(task[t]) /\ task[t].filename = n
              /\ IsSuccess(task[t].result)
              /\ task[t].raw_content = Str(<<"b1", 0>>)
        /\ raw[n] = File(<<"b2", 0>>)
        /\ n \in DOMAIN metadata
        /\ metadata[n].hash = md5(<<"b2", 0>>)
        /\ metadata[n].size = st_size(<<"b2", 0>>)

----------------------------------------------------------------------------
\* Claims about the records, over Spec.

\* C24: while the server runs, the names with a record only grow, whatever
\* happens to the raw files, and a record changes only when a process of its
\* name returns success.
RecordsNeverDeleted ==
    [][restarts' = restarts =>
          /\ DOMAIN metadata \subseteq DOMAIN metadata'
          /\ \A n \in DOMAIN metadata' :
                (n \notin DOMAIN metadata \/ metadata'[n] # metadata[n]) =>
                   \E t \in Tasks : Succeeds(t, n)
      ]_vars

\* C24 witness: a processed file was deleted and a later process of its name
\* failed for that; its record is still there.
RecordsNeverDeletedWitness ==
    \E t \in Tasks :
        /\ Terminal(task[t])
        /\ task[t].result = NotFoundError(task[t].filename)
        /\ ~raw[task[t].filename].exists
        /\ has_document_info(task[t].filename)
        /\ task[t].filename \in lifeSucceeded

\* C25: a successful process of n keeps, in the snapshot on disk, every
\* record of another name that was there before, unchanged; and when it has
\* written the snapshot, that is the one that was there before with the
\* record of n inserted or replaced.
ReadModifyPersist ==
    [][\A t \in Tasks, n \in Names :
          Succeeds(t, n) =>
             LET before == _load_metadata(snapshot)
                 after  == _load_metadata(snapshot')
             IN  /\ \A k \in DOMAIN before \ {n} :
                       k \in DOMAIN after /\ after[k] = before[k]
                 /\ (snapshot' # snapshot /\ snapshot'.state = "json") =>
                       after = mark_file_processed(before, raw[n], n, calls)
      ]_vars

\* C27: an existing raw file that has a record and does not need processing
\* has a processed file that was made from bytes with the hash of its
\* current ones.
UpToDateMeansCurrent ==
    \A n \in Names :
        (raw[n].exists /\ has_document_info(n) /\ ~file_needs_processing(n)) =>
            /\ processed[n].exists
            /\ processed[n].bytes[2] \in Tasks
            /\ md5(<<processed[n].bytes[1], 0>>) = _get_file_hash(raw[n])

\* C28 as stated: when overlapping invocations of two different names have
\* both returned success, the mapping in memory and the snapshot on disk
\* both hold the records of both.
NoLostUpdate ==
    [][\A t, u \in Tasks, n, k \in Names :
          ( /\ t # u /\ n # k
            /\ Succeeds(t, n)
            /\ Terminal(task[u]) /\ task[u].filename = k
            /\ IsSuccess(task[u].result) ) =>
             /\ {n, k} \subseteq DOMAIN metadata'
             /\ {n, k} \subseteq DOMAIN _load_metadata(snapshot')
      ]_vars

\* C28 amended: ... the mapping in memory holds the records of both, and so
\* does the snapshot on disk once the save of the invocation that finished
\* last has succeeded: a snapshot that holds its record holds the other one
\* too, as it is in memory.
NoLostUpdateOnceSaved ==
    [][\A t, u \in Tasks, n, k \in Names :
          ( /\ t # u /\ n # k
            /\ Succeeds(t, n)
            /\ Terminal(task[u]) /\ task[u].filename = k
            /\ IsSuccess(task[u].result) ) =>
             /\ {n, k} \subseteq DOMAIN metadata'
             /\ metadata'[k] = metadata[k]
             /\ n \in DOMAIN _load_metadata(snapshot') =>
                   _load_metadata(snapshot') = metadata'
      ]_vars

\* C28 witness: two invocations of different names were suspended together
\* and both returned success; memory and disk hold both records.
NoLostUpdateWitness ==
    /\ \A t \in Tasks : Terminal(task[t]) /\ IsSuccess(task[t].result)
    /\ task[1].filename # task[2].filename
    /\ DOMAIN metadata = Names
    /\ snapshot.state = "json"
    /\ DOMAIN _load_metadata(snapshot) = Names

----------------------------------------------------------------------------
\* Claims about what tool calls change, over SpecDispatch.

QueryTools == ToolNames \ {"process_raw_file"}

\* C26: the record of a name changes only in the step in which an invocation
\* of that name has written its text to the processed file and returns
\* success, and a text written to a processed file has its record in the
\* same step: no step of any tool call falls between the two.
WriteThenMarkAtomic ==
    [][\A n \in Names :
          /\ (n \in DOMAIN metadata' /\
                 (n \notin DOMAIN metadata \/ metadata'[n] # metadata[n])) =>
                \E t \in Tasks :
                   /\ Succeeds(t, n)
                   /\ processed'[n] =
                         File(utf8_encode(Response(task[t].raw_content, t)))
          /\ (processed'[n] # processed[n] /\ processed'[n] # File(NoBytes)) =>
                \E t \in Tasks :
                   /\ Succeeds(t, n)
                   /\ n \in DOMAIN metadata'
                   /\ metadata'[n] = mark_record(raw[n], n, calls)
      ]_vars

\* C26 witness: get_document_info, called after a dispatched process of
\* a.txt returned success, finds the record of the file it wrote.
WriteThenMarkAtomicWitness ==
    /\ Returns("get_document_info")
    /\ last.text[1] = "Document Information for '%s':%s"
    /\ last.text[2] = "a.txt"
    /\ processed["a.txt"].exists
    /\ processed["a.txt"].bytes[2] \in Tasks
    /\ last.text[3] = metadata["a.txt"]

\* C29: a query tool, on either dispatch path, returned or not, leaves the
\* metadata, the snapshot and every raw and processed file as they were; no
\* tool call, process_raw_file included, changes or removes a raw file or
\* removes a processed file.
QueriesEffectFree ==
    [][/\ (last' # last /\ last'.name \in QueryTools) =>
             /\ metadata' = metadata /\ snapshot' = snapshot
             /\ raw' = raw /\ processed' = processed
       /\ raw' = raw
       /\ \A n \in Names : processed[n].exists => processed'[n].exists
      ]_vars

\* C29 witness: with a.txt processed, read_processed_file has returned its
\* content.
QueriesEffectFreeWitness ==
    /\ Returns("read_processed_file")
    /\ last.text[1] = "Content of processed '%s':%s"
    /\ last.text[2] = "a.txt"
    /\ last.text[3] = read_processed_file("a.txt")
    /\ has_document_info("a.txt")
    /\ snapshot = Json(dumps(metadata))

====
